---- MODULE Spec2Model ----
(***************************************************************************)
(* Model of the document question-answering backend:                       *)
(*   backend/app/services/document_service.py   (DocumentService)          *)
(*   backend/app/services/vertex_rag_service.py (VertexRAGService)         *)
(*                                                                         *)
(* The services run on one asyncio event loop: a coroutine is interleaved  *)
(* with others only where it awaits something that really suspends (the    *)
(* embedding call, the generation call, aiofiles).  Each action below is   *)
(* the code between two such suspension points.                            *)
(*                                                                         *)
(* Floating point: a cosine similarity is kept exactly, as the pair        *)
(* (dot product, squared product of the norms); comparisons are the exact  *)
(* comparisons of the real numbers the floats approximate.                 *)
(***************************************************************************)
EXTENDS Integers, Sequences, FiniteSets, TLC

VARIABLES
    documents,           \* DocumentService.documents: the ids it maps
    rag_documents,       \* VertexRAGService.documents: the ids it maps
    chunks_by_document,  \* VertexRAGService.chunks_by_document, in dict order
    document_obj,        \* the Document objects, by id (both maps share them)
    files,               \* ids whose <id>.json snapshot exists on disk
    clock,               \* datetime.now(), as a count of documents created
    ingest,              \* the process_document calls, one per task
    search,              \* one search_documents call
    deleted,             \* ids for which delete_document has returned True
    qa,                  \* one answer_question call
    chunking,            \* one chunk_document call
    embed_call,          \* one generate_embedding call
    upload,              \* one ingest_documents request
    request,             \* one request to the routes
    removal              \* one delete_document call

vars == <<documents, rag_documents, chunks_by_document, document_obj, files,
          clock, ingest, search, deleted, qa, chunking, embed_call, upload, request,
          removal>>

---------------------------------------------------------------------------
(* Bounds of the model. *)

\* process_document calls in one behaviour; a call's uuid4 is its task number
MaxDocs == 1
\* chunks chunk_document hands back for one file
MaxChunks == 2

Tasks == 1 .. MaxDocs

\* Python's None, where a string may stand
None == "None"
\* `threshold=None`: no threshold given (a threshold is a fraction <<n, d>>)
NoThreshold == <<>>
\* `embedding=None`: a chunk without an embedding
NoEmbedding == <<>>
\* `document_ids=None`; a list of ids is [given |-> TRUE, ids |-> the ids]
NoDocumentIds == [given |-> FALSE, ids |-> {}]
DocumentIdList(ids) == [given |-> TRUE, ids |-> ids]

---------------------------------------------------------------------------
(* Program constants. *)

\* `len(chunk.content.strip()) < 10`
MinChunkChars == 10

\* Settings.similarity_threshold, default 0.4, as a fraction
SimilarityThreshold == <<4, 10>>

\* `limit: int = 5` of search_documents
DefaultLimit == 5

---------------------------------------------------------------------------
(* What the environment can hand in. *)

\* contents of the chunks chunk_document returns (already stripped)
Contents == {"Hi.", "The cat sat."}

\* queries of the searches
Queries == {"cat", "calm"}

\* the embedding model: the vector the provider returns for a text; for
\* "gato" it answers with a vector of another dimension
Embedding(text) ==
    CASE text \in {"The cat sat.", "cat"} -> <<1, 1, 0>>
      [] text = "gato" -> <<1, 1>>
      [] text \in {"It was calm.", "calm"} -> <<0, 1, 1>>
      [] text \in {"A dog barks.", "dog"} -> <<1, 0, 0>>
      [] OTHER -> <<0, 0, 0>>

\* chunk_document's return value for some file: 0..MaxChunks chunks
RECURSIVE SeqsUpTo(_, _)
SeqsUpTo(S, n) ==
    IF n = 0 THEN {<<>>}
    ELSE LET shorter == SeqsUpTo(S, n - 1)
         IN  shorter \cup {Append(s, x) : s \in {t \in shorter : Len(t) = n - 1}, x \in S}

ChunkDatas == SeqsUpTo(Contents, MaxChunks)

---------------------------------------------------------------------------
(* Cosine similarity, kept exactly. *)

RECURSIVE DotFrom(_, _, _)
DotFrom(a, b, i) ==
    IF i > Len(a) THEN 0 ELSE a[i] * b[i] + DotFrom(a, b, i + 1)

Dot(a, b) == DotFrom(a, b, 1)

\* the similarity 0.0
ZeroSim == [num |-> 0, den2 |-> 1]

\* _cosine_similarity: dot / (|a| |b|); 0.0 when the product of the norms is
\* 0, and 0.0 when numpy raises (np.dot on vectors of different lengths).
\* The value is num / sqrt(den2).
CosineSimilarity(vec1, vec2) ==
    IF Len(vec1) # Len(vec2) THEN ZeroSim
    ELSE LET denom2 == Dot(vec1, vec1) * Dot(vec2, vec2)
         IN  IF denom2 = 0 THEN ZeroSim
             ELSE [num |-> Dot(vec1, vec2), den2 |-> denom2]

\* sign(x) * x * x
SignedSquare(x) == IF x < 0 THEN -(x * x) ELSE x * x

\* s1 < s2 as real numbers
SimLess(s1, s2) ==
    SignedSquare(s1.num) * s2.den2 < SignedSquare(s2.num) * s1.den2

\* `similarity >= threshold`, the threshold a fraction <<n, d>>, d > 0
SimAtLeast(s, threshold) ==
    SignedSquare(s.num) * threshold[2] * threshold[2]
        >= SignedSquare(threshold[1]) * s.den2

---------------------------------------------------------------------------
(* VertexRAGService.search_documents, after its embedding call. *)

\* EffectiveThreshold with the argument forgotten: always the configured value
EffectiveThresholdIgnoringArgument(threshold) == SimilarityThreshold

\* `if threshold is None: threshold = settings.similarity_threshold`
EffectiveThreshold(threshold) ==
    IF threshold = NoThreshold THEN SimilarityThreshold ELSE threshold

\* SearchResult(chunk, document, similarity, relevance_score=similarity)
SearchResult(chunk, doc_id, similarity) ==
    [chunk |-> chunk, document |-> doc_id, similarity |-> similarity,
     relevance_score |-> similarity]

\* the inner loop over one document's chunks, from chunk i on
RECURSIVE ScanChunks(_, _, _, _, _)
ScanChunks(doc_id, chunks, i, query_embedding, threshold) ==
    IF i > Len(chunks) THEN <<>>
    ELSE LET chunk == chunks[i]
             rest == ScanChunks(doc_id, chunks, i + 1, query_embedding, threshold)
         IN  IF Len(chunk.embedding) = 0 THEN rest   \* `if not chunk.embedding`
             ELSE LET similarity == CosineSimilarity(query_embedding, chunk.embedding)
                  IN  IF SimAtLeast(similarity, threshold)
                      THEN <<SearchResult(chunk, doc_id, similarity)>> \o rest
                      ELSE rest

\* `if document_ids and doc_id not in document_ids: continue`
\* `if not document: continue`
SkipsDocument(doc_id, document_ids) ==
    \/ (document_ids.given /\ document_ids.ids # {} /\ doc_id \notin document_ids.ids)
    \/ doc_id \notin rag_documents

\* the outer loop over chunks_by_document.items(), from entry e on
RECURSIVE ScanStore(_, _, _, _)
ScanStore(e, query_embedding, threshold, document_ids) ==
    IF e > Len(chunks_by_document) THEN <<>>
    ELSE LET entry == chunks_by_document[e]
             rest == ScanStore(e + 1, query_embedding, threshold, document_ids)
         IN  IF SkipsDocument(entry.doc_id, document_ids) THEN rest
             ELSE ScanChunks(entry.doc_id, entry.chunks, 1, query_embedding, threshold)
                      \o rest

\* InsertBySimilarity of a sort that is not stable: an element goes in front
\* of the elements already placed whose similarity is equal
InsertBySimilarityBeforeTies(sorted, r) ==
    LET ahead == Cardinality({i \in 1 .. Len(sorted) :
                                SimLess(r.similarity, sorted[i].similarity)})
    IN  SubSeq(sorted, 1, ahead) \o <<r>> \o SubSeq(sorted, ahead + 1, Len(sorted))

\* list.sort(key=similarity, reverse=True) is stable: an element goes behind
\* every element already placed whose similarity is not smaller.
InsertBySimilarity(sorted, r) ==
    LET ahead == Cardinality({i \in 1 .. Len(sorted) :
                                ~SimLess(sorted[i].similarity, r.similarity)})
    IN  SubSeq(sorted, 1, ahead) \o <<r>> \o SubSeq(sorted, ahead + 1, Len(sorted))

RECURSIVE SortFrom(_, _, _)
SortFrom(results, i, sorted) ==
    IF i > Len(results) THEN sorted
    ELSE SortFrom(results, i + 1, InsertBySimilarity(sorted, results[i]))

SortBySimilarity(results) == SortFrom(results, 1, <<>>)

\* Truncate off by one: `results[:limit + 1]`
TruncateOneMore(results, limit) ==
    SubSeq(results, 1, IF limit + 1 < Len(results) THEN limit + 1 ELSE Len(results))

\* `results[:limit]`, as Python slices: a negative limit drops from the end
Truncate(results, limit) ==
    IF limit >= 0
    THEN SubSeq(results, 1, IF limit < Len(results) THEN limit ELSE Len(results))
    ELSE SubSeq(results, 1, IF Len(results) + limit > 0 THEN Len(results) + limit ELSE 0)

\* lines 188-226 of search_documents: scan, sort, truncate
SearchDocuments(query_embedding, limit, threshold, document_ids) ==
    Truncate(
        SortBySimilarity(ScanStore(1, query_embedding,
                                   EffectiveThreshold(threshold), document_ids)),
        limit)

---------------------------------------------------------------------------
(* DocumentService.process_document and                                    *)
(* VertexRAGService.add_document_to_corpus.                                *)

\* an outcome of `await self.generate_embedding(...)`: a vector, or the
\* exception raised once the retries are used up
EmbeddingOutcomes(text) ==
    {[ok |-> TRUE, vec |-> Embedding(text)], [ok |-> FALSE, vec |-> <<>>]}

\* the file name of the uploads
UploadName == "cv.txt"

\* f"{filename}_chunk_{chunk_index}"
ChunkId(filename, chunk_index) == [filename |-> filename, chunk_index |-> chunk_index]

\* `title = filename.rsplit('.', 1)[0]`, on the file names of the model
Title(filename) ==
    CASE filename = "cv.txt" -> "cv"
      [] filename = "notes.v2.pdf" -> "notes.v2"
      [] OTHER -> filename

\* DocumentChunk(id, content, page_number, chunk_index, metadata) as
\* chunk_document builds it; charCount counts the space after the last
\* sentence
DocumentChunk(filename, content, page_number, chunk_index) ==
    [id |-> ChunkId(filename, chunk_index), content |-> content,
     page_number |-> page_number, chunk_index |-> chunk_index,
     embedding |-> NoEmbedding,
     metadata |-> [filename |-> filename, pageNumber |-> page_number,
                   chunkIndex |-> chunk_index, chunkType |-> "text",
                   charCount |-> Len(content) + 1]]

\* the chunks chunk_document returns for a text without page markers whose
\* chunks have the contents chunk_data: index i - 1 for the i-th, page 1, no
\* embedding
ChunkDocument(chunk_data) ==
    [i \in 1 .. Len(chunk_data) |->
        DocumentChunk(UploadName, chunk_data[i], 1, i - 1)]

\* ChunkTooShort without the length test: `if not chunk.content: continue`
ChunkTooShortOnlyEmpty(chunk) == Len(chunk.content) = 0

\* `if not chunk.content or len(chunk.content.strip()) < 10: continue`
ChunkTooShort(chunk) == Len(chunk.content) < MinChunkChars

\* the loop "Validate chunks before processing"
RECURSIVE ValidChunksFrom(_, _)
ValidChunksFrom(chunk_data, i) ==
    IF i > Len(chunk_data) THEN <<>>
    ELSE IF ChunkTooShort(chunk_data[i]) THEN ValidChunksFrom(chunk_data, i + 1)
         ELSE <<chunk_data[i]>> \o ValidChunksFrom(chunk_data, i + 1)

ValidChunks(chunk_data) == ValidChunksFrom(chunk_data, 1)

IdleIngest == [pc |-> "idle", chunks |-> <<>>, k |-> 0, enriched |-> <<>>, raised |-> None]

\* process_document raises: nothing of the call is kept
Raise(t, error) ==
    ingest' = [ingest EXCEPT ![t] = [IdleIngest EXCEPT !.pc = "raised", !.raised = error]]

\* process_document up to its first suspension: validate_file
StartIngest(t) ==
    /\ ingest[t].pc = "idle"
    /\ \A u \in Tasks : u < t => ingest[u].pc # "idle"   \* calls numbered as they arrive
    /\ \E is_valid \in BOOLEAN :
          IF is_valid
          THEN ingest' = [ingest EXCEPT ![t].pc = "extracting"]
          ELSE Raise(t, "FileValidationError")
    /\ UNCHANGED <<documents, rag_documents, chunks_by_document, document_obj,
                   files, clock, search, deleted, qa,
                   chunking, embed_call, upload, request, removal>>

\* text extraction returns or raises; then the Document is created, the text
\* is chunked, the chunks are filtered and add_document_to_corpus runs to its
\* first embedding call
ExtractText(t) ==
    /\ ingest[t].pc = "extracting"
    /\ \/ /\ Raise(t, "DocumentProcessingError")
          /\ UNCHANGED <<rag_documents, document_obj, clock>>
       \/ \E chunk_data \in ChunkDatas :
            LET chunks == ValidChunks(ChunkDocument(chunk_data))
            IN  /\ clock' = clock + 1
                /\ document_obj' = [document_obj EXCEPT ![t] =
                        [filename |-> UploadName, title |-> Title(UploadName),
                         status |-> "processing", chunk_count |-> 0,
                         uploaded_at |-> clock + 1, processed_at |-> None]]
                /\ IF chunks = <<>>
                   THEN /\ Raise(t, "DocumentProcessingError")
                        /\ UNCHANGED rag_documents
                   ELSE /\ rag_documents' = rag_documents \cup {t}
                        /\ ingest' = [ingest EXCEPT ![t] =
                               [pc |-> "embedding", chunks |-> chunks, k |-> 1,
                                enriched |-> <<>>, raised |-> None]]
    /\ UNCHANGED <<documents, chunks_by_document, files, search, deleted, qa,
                   chunking, embed_call, upload, request, removal>>

\* Enrich without the `continue`: a chunk whose embedding call failed is
\* appended all the same, without an embedding
EnrichKeepingFailed(enriched, chunk, outcome) ==
    Append(enriched, [chunk EXCEPT !.embedding = outcome.vec])

\* the body of the enrichment loop for one chunk: the chunk with its
\* embedding is appended; on an exception, `continue`
Enrich(enriched, chunk, outcome) ==
    IF outcome.ok
    THEN Append(enriched, [chunk EXCEPT !.embedding = outcome.vec])
    ELSE enriched

\* `self.chunks_by_document[document.id] = enriched_chunks` for a new key
PutChunks(doc_id, enriched) ==
    Append(chunks_by_document, [doc_id |-> doc_id, chunks |-> enriched])

\* EmbedChunk storing the list as it grows: chunks_by_document[document.id]
\* is set after every chunk instead of after the loop
EmbedChunkStoringEachChunk(t) ==
    /\ ingest[t].pc = "embedding"
    /\ \E outcome \in EmbeddingOutcomes(ingest[t].chunks[ingest[t].k].content) :
         LET enriched == Enrich(ingest[t].enriched, ingest[t].chunks[ingest[t].k], outcome)
             others == SelectSeq(chunks_by_document, LAMBDA entry : entry.doc_id # t)
         IN  /\ chunks_by_document' = Append(others, [doc_id |-> t, chunks |-> enriched])
             /\ IF ingest[t].k < Len(ingest[t].chunks)
                THEN /\ ingest' = [ingest EXCEPT ![t].k = @ + 1, ![t].enriched = enriched]
                     /\ UNCHANGED <<documents, document_obj>>
                ELSE /\ document_obj' = [document_obj EXCEPT
                            ![t].chunk_count = Len(ingest[t].chunks),
                            ![t].processed_at = "now",
                            ![t].status = "completed"]
                     /\ documents' = documents \cup {t}
                     /\ ingest' = [ingest EXCEPT ![t] = [IdleIngest EXCEPT !.pc = "saving"]]
    /\ UNCHANGED <<rag_documents, files, clock, search, deleted, qa,
                   chunking, embed_call, upload, request, removal>>

\* EmbedChunk without `document.processed_at = datetime.now()` and
\* `document.status = "completed"`: the document is stored as it was created
EmbedChunkLeavingStatus(t) ==
    /\ ingest[t].pc = "embedding"
    /\ \E outcome \in EmbeddingOutcomes(ingest[t].chunks[ingest[t].k].content) :
         LET enriched == Enrich(ingest[t].enriched, ingest[t].chunks[ingest[t].k], outcome)
         IN  IF ingest[t].k < Len(ingest[t].chunks)
             THEN /\ ingest' = [ingest EXCEPT ![t].k = @ + 1, ![t].enriched = enriched]
                  /\ UNCHANGED <<documents, chunks_by_document, document_obj>>
             ELSE /\ chunks_by_document' = PutChunks(t, enriched)
                  /\ document_obj' = [document_obj EXCEPT
                         ![t].chunk_count = Len(ingest[t].chunks)]
                  /\ documents' = documents \cup {t}
                  /\ ingest' = [ingest EXCEPT ![t] = [IdleIngest EXCEPT !.pc = "saving"]]
    /\ UNCHANGED <<rag_documents, files, clock, search, deleted, qa,
                   chunking, embed_call, upload, request, removal>>

\* an embedding call of add_document_to_corpus returns or raises.  After the
\* last chunk the list is stored and process_document runs on without
\* suspending: chunk_count, processed_at, status, self.documents[doc_id].
EmbedChunk(t) ==
    /\ ingest[t].pc = "embedding"
    /\ \E outcome \in EmbeddingOutcomes(ingest[t].chunks[ingest[t].k].content) :
         LET enriched == Enrich(ingest[t].enriched, ingest[t].chunks[ingest[t].k], outcome)
         IN  IF ingest[t].k < Len(ingest[t].chunks)
             THEN /\ ingest' = [ingest EXCEPT ![t].k = @ + 1, ![t].enriched = enriched]
                  /\ UNCHANGED <<documents, chunks_by_document, document_obj>>
             ELSE /\ chunks_by_document' = PutChunks(t, enriched)
                  /\ document_obj' = [document_obj EXCEPT
                         ![t].chunk_count = Len(ingest[t].chunks),
                         ![t].processed_at = "now",
                         ![t].status = "completed"]
                  /\ documents' = documents \cup {t}
                  /\ ingest' = [ingest EXCEPT ![t] = [IdleIngest EXCEPT !.pc = "saving"]]
    /\ UNCHANGED <<rag_documents, files, clock, search, deleted, qa,
                   chunking, embed_call, upload, request, removal>>

\* SaveSnapshot marking the document when the write fails: `status = "error"`
\* in the except clause
SaveSnapshotMarkingError(t) ==
    /\ ingest[t].pc = "saving"
    /\ \E outcome \in {"written", "failed", "partial"} :
          /\ files' = IF outcome = "failed" THEN files ELSE files \cup {t}
          /\ document_obj' = IF outcome = "written" THEN document_obj
                             ELSE [document_obj EXCEPT ![t].status = "error"]
    /\ ingest' = [ingest EXCEPT ![t].pc = "done"]
    /\ UNCHANGED <<documents, rag_documents, chunks_by_document,
                   clock, search, deleted, qa,
                   chunking, embed_call, upload, request, removal>>

\* the snapshot <doc_id>.json is written, or the write fails (with or without
\* the file left behind); process_document returns the document either way
SaveSnapshot(t) ==
    /\ ingest[t].pc = "saving"
    /\ \E outcome \in {"written", "failed", "partial"} :
          files' = IF outcome = "failed" THEN files ELSE files \cup {t}
    /\ ingest' = [ingest EXCEPT ![t].pc = "done"]
    /\ UNCHANGED <<documents, rag_documents, chunks_by_document, document_obj,
                   clock, search, deleted, qa,
                   chunking, embed_call, upload, request, removal>>

---------------------------------------------------------------------------
(* DocumentService: get, list, count, delete. *)

\* the absent Document: what `self.documents.get(document_id)` gives for a
\* missing key (None)
NoDocument ==
    [filename |-> None, title |-> None, status |-> None, chunk_count |-> 0,
     uploaded_at |-> 0, processed_at |-> None]

\* `self.documents.get(document_id)`
GetDocument(document_id) ==
    IF document_id \in documents THEN document_obj[document_id] ELSE NoDocument

GetDocumentCount == Cardinality(documents)

\* the documents by uploaded_at, newest first
RECURSIVE SortedByUpload(_)
SortedByUpload(ids) ==
    IF ids = {} THEN <<>>
    ELSE LET newest == CHOOSE d \in ids :
                 \A e \in ids : document_obj[e].uploaded_at <= document_obj[d].uploaded_at
         IN  <<newest>> \o SortedByUpload(ids \ {newest})

\* `docs[skip:skip + limit]`, skip >= 0 and limit >= 1 as the route admits
ListDocuments(skip, limit) ==
    LET docs == SortedByUpload(documents)
        last == IF skip + limit < Len(docs) THEN skip + limit ELSE Len(docs)
    IN  SubSeq(docs, skip + 1, last)

\* ids a caller can know: those process_document has stored
KnownIds == {t \in Tasks : ingest[t].pc \in {"saving", "done"}}

\* delete_document without `del self.documents[document_id]`: only the
\* snapshot file is removed
DeleteDocumentKeepingRecord(document_id) ==
    /\ document_id \in KnownIds
    /\ \E removed \in BOOLEAN :
          IF document_id \in files
          THEN IF removed
               THEN /\ files' = files \ {document_id}
                    /\ deleted' = deleted \cup {document_id}
               ELSE UNCHANGED <<files, deleted>>
          ELSE /\ removed
               /\ deleted' = deleted \cup {document_id}
               /\ UNCHANGED files
    /\ UNCHANGED <<documents, rag_documents, chunks_by_document, document_obj, clock,
                   ingest, search, qa, chunking, embed_call, upload, request, removal>>

\* delete_document: True unless os.remove raises
DeleteDocument(document_id) ==
    /\ document_id \in KnownIds
    /\ documents' = documents \ {document_id}
    /\ \E removed \in BOOLEAN :
          IF document_id \in files
          THEN IF removed
               THEN /\ files' = files \ {document_id}
                    /\ deleted' = deleted \cup {document_id}
               ELSE UNCHANGED <<files, deleted>>
          ELSE /\ removed
               /\ deleted' = deleted \cup {document_id}
               /\ UNCHANGED files
    /\ UNCHANGED <<rag_documents, chunks_by_document, document_obj, clock,
                   ingest, search, qa, chunking, embed_call, upload, request, removal>>

---------------------------------------------------------------------------
(* One search_documents call, made at any moment, concurrent with the rest. *)

\* arguments of the searches of Spec
SearchLimits == {DefaultLimit}
SearchThresholds == {NoThreshold}
SearchFilters == {NoDocumentIds}

IdleSearch ==
    [pc |-> "idle", query |-> "", limit |-> 0, threshold |-> NoThreshold,
     document_ids |-> NoDocumentIds, result |-> <<>>]

\* the call with its arguments, at `await self.generate_embedding(query)`
StartedSearch(query, limit, threshold, document_ids) ==
    [pc |-> "embedding", query |-> query, limit |-> limit,
     threshold |-> threshold, document_ids |-> document_ids, result |-> <<>>]

\* search_documents up to `await self.generate_embedding(query)`
SearchStart(query, limit, threshold, document_ids) ==
    /\ search.pc = "idle"
    /\ search' = StartedSearch(query, limit, threshold, document_ids)
    /\ UNCHANGED <<documents, rag_documents, chunks_by_document, document_obj,
                   files, clock, ingest, deleted, qa,
                   chunking, embed_call, upload, request, removal>>

\* the call after its embedding call: returned with its results, or raised
FinishedSearch(outcome) ==
    IF outcome.ok
    THEN [search EXCEPT !.pc = "done",
                        !.result = SearchDocuments(outcome.vec, search.limit,
                                       search.threshold, search.document_ids)]
    ELSE [search EXCEPT !.pc = "raised"]

\* the embedding call returns and the scan, the sort and the return follow
\* without suspending; or it raises and search_documents raises SearchError
SearchFinish ==
    /\ search.pc = "embedding"
    /\ \E outcome \in EmbeddingOutcomes(search.query) :
          search' = FinishedSearch(outcome)
    /\ UNCHANGED <<documents, rag_documents, chunks_by_document, document_obj,
                   files, clock, ingest, deleted, qa,
                   chunking, embed_call, upload, request, removal>>

---------------------------------------------------------------------------
(* DocumentService.chunk_document on a text.  A text is a sequence of      *)
(* pieces: a piece is a character, or a run of characters that the code    *)
(* only ever handles as a whole (a word, the head of a page-marker line).  *)

\* `if len(current_chunk) + len(sentence) > 4000`
MaxChunkChars == 4000

\* the two page-marker heads: "--- Page 2" and one whose third field is no
\* number
PageMarkers == {"--- Page 2", "--- Page x"}

\* len() of a piece; "x1999" is a word of 1999 letters
CharLen(piece) == IF piece = "x1999" THEN 1999 ELSE Len(piece)

RECURSIVE CharCount(_)
CharCount(pieces) ==
    IF pieces = <<>> THEN 0 ELSE CharLen(Head(pieces)) + CharCount(Tail(pieces))

\* str.strip(): the white space at both ends goes
RECURSIVE StripLeft(_)
StripLeft(pieces) ==
    IF pieces # <<>> /\ Head(pieces) \in {" ", "\n"} THEN StripLeft(Tail(pieces))
    ELSE pieces

RECURSIVE StripRight(_)
StripRight(pieces) ==
    IF pieces # <<>> /\ pieces[Len(pieces)] \in {" ", "\n"}
    THEN StripRight(SubSeq(pieces, 1, Len(pieces) - 1))
    ELSE pieces

Strip(pieces) == StripRight(StripLeft(pieces))

\* text.split('\n'), from piece i on, `line` being the line read so far
RECURSIVE SplitLines(_, _, _)
SplitLines(text, i, line) ==
    IF i > Len(text) THEN <<line>>
    ELSE IF text[i] = "\n" THEN <<line>> \o SplitLines(text, i + 1, <<>>)
    ELSE SplitLines(text, i + 1, Append(line, text[i]))

\* `line.startswith('--- Page')`
IsPageMarker(line) == line # <<>> /\ line[1] \in PageMarkers

\* the page a marker line sets: int(line.split()[2]), or current_page + 1
\* when that field is no number (the head "--- Page 2" directly followed by
\* more characters, or the head "--- Page x")
MarkerPage(line, current_page) ==
    IF line[1] = "--- Page 2" /\ (Len(line) = 1 \/ line[2] = " ")
    THEN 2
    ELSE current_page + 1

\* the loop over the characters of a line, from piece i on
RECURSIVE LineSentences(_, _, _)
LineSentences(line, i, current_sentence) ==
    IF i > Len(line)
    THEN IF Strip(current_sentence) # <<>> THEN <<Strip(current_sentence)>> ELSE <<>>
    ELSE LET grown == Append(current_sentence, line[i])
         IN  IF line[i] = "."
             THEN (IF Strip(grown) # <<>> THEN <<Strip(grown)>> ELSE <<>>)
                      \o LineSentences(line, i + 1, <<>>)
             ELSE LineSentences(line, i + 1, grown)

\* the loop over the lines, from line i on: the sentences of the text
RECURSIVE SentencesFrom(_, _)
SentencesFrom(lines, i) ==
    IF i > Len(lines) THEN <<>>
    ELSE IF IsPageMarker(lines[i]) THEN SentencesFrom(lines, i + 1)
    ELSE LineSentences(lines[i], 1, <<>>) \o SentencesFrom(lines, i + 1)

Sentences(text) == SentencesFrom(SplitLines(text, 1, <<>>), 1)

\* current_page when the loop over the lines is over
RECURSIVE LastPage(_, _, _)
LastPage(lines, i, current_page) ==
    IF i > Len(lines) THEN current_page
    ELSE IF IsPageMarker(lines[i])
         THEN LastPage(lines, i + 1, MarkerPage(lines[i], current_page))
         ELSE LastPage(lines, i + 1, current_page)

\* `current_page = 1` with the page before it
InitialPageZero == 1 - 1

\* `current_page = 1`
InitialPage == 1

\* DocumentChunk(id, content=current_chunk.strip(), page_number, chunk_index,
\* metadata)
NewChunk(filename, current_chunk, current_page, chunk_index) ==
    [id |-> ChunkId(filename, chunk_index), content |-> Strip(current_chunk),
     page_number |-> current_page, chunk_index |-> chunk_index,
     embedding |-> NoEmbedding,
     metadata |-> [filename |-> filename, pageNumber |-> current_page,
                   chunkIndex |-> chunk_index, chunkType |-> "text",
                   charCount |-> CharCount(current_chunk)]]

\* the size test with the sentence left out: `len(current_chunk) > 4000`
ExceedsChunkSizeWithoutSentence(current_chunk, sentence) ==
    CharCount(current_chunk) > MaxChunkChars

\* `len(current_chunk) + len(sentence) > 4000`
ExceedsChunkSize(current_chunk, sentence) ==
    CharCount(current_chunk) + CharCount(sentence) > MaxChunkChars

\* `chunk_index += 1` left out
NextChunkIndexStuck(chunk_index) == chunk_index

\* `chunk_index += 1`
NextChunkIndex(chunk_index) == chunk_index + 1

\* the loop "Create chunks preserving sentence boundaries", from sentence i
\* on, and then "Add final chunk if not empty"
RECURSIVE ChunkSentences(_, _, _, _, _, _, _)
ChunkSentences(sentences, i, filename, current_page, current_chunk, chunk_index, chunks) ==
    IF i > Len(sentences)
    THEN IF Strip(current_chunk) # <<>>
         THEN Append(chunks, NewChunk(filename, current_chunk, current_page, chunk_index))
         ELSE chunks
    ELSE LET sentence == Strip(sentences[i])
         IN  IF sentence = <<>>
             THEN ChunkSentences(sentences, i + 1, filename, current_page,
                                 current_chunk, chunk_index, chunks)
             ELSE IF ExceedsChunkSize(current_chunk, sentence)
             THEN IF current_chunk # <<>>
                  THEN ChunkSentences(sentences, i + 1, filename, current_page,
                           Append(sentence, " "), NextChunkIndex(chunk_index),
                           Append(chunks, NewChunk(filename, current_chunk,
                                                   current_page, chunk_index)))
                  ELSE ChunkSentences(sentences, i + 1, filename, current_page,
                           Append(sentence, " "), chunk_index, chunks)
             ELSE ChunkSentences(sentences, i + 1, filename, current_page,
                      current_chunk \o Append(sentence, " "), chunk_index, chunks)

\* chunk_document(text, filename)
ChunkText(text, filename) ==
    LET lines == SplitLines(text, 1, <<>>)
    IN  ChunkSentences(SentencesFrom(lines, 1), 1, filename,
                       LastPage(lines, 1, InitialPage), <<>>, 0, <<>>)

\* Settings.chunk_size: `Field(default=4000, env="CHUNK_SIZE")`
DefaultChunkSize == 4000

\* `chunk_size` is the Settings.chunk_size in force during the call
IdleChunking ==
    [pc |-> "idle", text |-> <<>>, filename |-> "", chunk_size |-> DefaultChunkSize,
     chunks |-> <<>>]

\* one chunk_document call: it awaits nothing, so it is one step
ChunkDocumentCall ==
    /\ chunking.pc = "called"
    /\ chunking' = [chunking EXCEPT !.pc = "returned",
                        !.chunks = ChunkText(chunking.text, chunking.filename)]
    /\ UNCHANGED <<documents, rag_documents, chunks_by_document, document_obj, files,
                   clock, ingest, search, deleted, qa, embed_call, upload, request, removal>>

\* the other calls, before they are made (their records are defined with
\* their operations)
IdleEmbedCall ==
    [pc |-> "idle", text |-> "", attempts |-> <<>>, result |-> NoEmbedding,
     error |-> None]
IdleUpload ==
    [pc |-> "idle", files |-> <<>>, i |-> 0, successful_docs |-> <<>>,
     errors |-> <<>>, response |-> None]
\* a request to a route: `status` and `body` are the answer of the chunks
\* route
NoRequest ==
    [pc |-> "idle", route |-> None, threshold |-> NoThreshold, results |-> <<>>,
     document_id |-> 0, status |-> 0,
     body |-> [success |-> FALSE, chunks |-> <<>>, total_chunks |-> 0]]
IdleRemoval ==
    [pc |-> "idle", document_id |-> 0, present |-> FALSE, snapshot |-> FALSE,
     documents_before |-> {}, returned |-> FALSE]

---------------------------------------------------------------------------
(* The services after construction, and the concurrent system. *)

\* a generation response without text in any shape
NoText == [has_text |-> FALSE, text |-> "", has_candidates |-> FALSE, candidate_text |-> ""]

IdleQA ==
    [pc |-> "idle", question |-> "", max_sources |-> 0, session_id |-> None,
     document_ids |-> NoDocumentIds, sources |-> <<>>, generated |-> NoText,
     caught |-> None,
     response |-> [success |-> FALSE, answer |-> "", sources |-> <<>>,
                   confidence |-> <<0, 1>>, session_id |-> "", error |-> None]]

Init ==
    /\ documents = {}
    /\ rag_documents = {}
    /\ chunks_by_document = <<>>
    /\ document_obj = [t \in Tasks |-> NoDocument]
    /\ files = {}
    /\ clock = 0
    /\ ingest = [t \in Tasks |-> IdleIngest]
    /\ search = IdleSearch
    /\ deleted = {}
    /\ qa = IdleQA
    /\ chunking = IdleChunking
    /\ embed_call = IdleEmbedCall
    /\ upload = IdleUpload
    /\ request = NoRequest
    /\ removal = IdleRemoval

Next ==
    \/ \E t \in Tasks : StartIngest(t)
    \/ \E t \in Tasks : ExtractText(t)
    \/ \E t \in Tasks : EmbedChunk(t)
    \/ \E t \in Tasks : SaveSnapshot(t)
    \/ \E d \in Tasks : DeleteDocument(d)
    \/ \E query \in Queries, limit \in SearchLimits, threshold \in SearchThresholds,
          document_ids \in SearchFilters :
          SearchStart(query, limit, threshold, document_ids)
    \/ SearchFinish

Spec == Init /\ [][Next]_vars

---------------------------------------------------------------------------
(* search_documents as a function of the store and its arguments: the      *)
(* store is any store earlier ingests can have left, the calls take every  *)
(* argument below.                                                         *)

\* chunks in the store
MaxStoreChunks == 3

StoreDocIds == {1, 2}

\* contents of stored chunks; "Nothing here" embeds to the zero vector
StoreContents == {"The cat sat.", "It was calm.", "A dog barks.", "Nothing here"}

\* the stored chunks in dict order, each with its document: a document's
\* chunks are adjacent and document 1 was stored first
Layouts(contents, n) ==
    {s \in SeqsUpTo(StoreDocIds \X contents, n) :
        /\ s # <<>> => s[1][1] = 1
        /\ \A i \in 1 .. Len(s) - 1 : s[i][1] <= s[i + 1][1]}

StoreLayouts == Layouts(StoreContents, MaxStoreChunks)

\* the file document d came from; the pages of document 2 were marked and
\* its text ended on page 2
StoreFilename(d) == IF d = 1 THEN "cv.txt" ELSE "notes.v2.pdf"

\* the chunk list add_document_to_corpus stored for document d
RECURSIVE LayoutChunks(_, _, _, _)
LayoutChunks(s, d, i, index) ==
    IF i > Len(s) THEN <<>>
    ELSE IF s[i][1] # d THEN LayoutChunks(s, d, i + 1, index)
         ELSE <<[DocumentChunk(StoreFilename(d), s[i][2], d, index)
                    EXCEPT !.embedding = Embedding(s[i][2])]>>
                  \o LayoutChunks(s, d, i + 1, index + 1)

LayoutIds(s) == {s[i][1] : i \in 1 .. Len(s)}

LayoutStore(s) ==
    LET entry(d) == [doc_id |-> d, chunks |-> LayoutChunks(s, d, 1, 0)]
    IN  IF LayoutIds(s) = {} THEN <<>>
        ELSE IF LayoutIds(s) = {1} THEN <<entry(1)>>
        ELSE <<entry(1), entry(2)>>

StoredDocument(d, s) ==
    [filename |-> StoreFilename(d), title |-> Title(StoreFilename(d)),
     status |-> "completed", chunk_count |-> Len(LayoutChunks(s, d, 1, 0)),
     uploaded_at |-> d, processed_at |-> "now"]

StoreInit(layouts) ==
    \E s \in layouts :
        /\ chunks_by_document = LayoutStore(s)
        /\ documents = LayoutIds(s)
        /\ rag_documents = LayoutIds(s)
        /\ document_obj = [d \in StoreDocIds |->
                              IF d \in LayoutIds(s) THEN StoredDocument(d, s)
                              ELSE NoDocument]
        /\ files = LayoutIds(s)
        /\ clock = Cardinality(LayoutIds(s))
        /\ ingest = [t \in Tasks |-> [IdleIngest EXCEPT !.pc = "done"]]
        /\ deleted = {}

InitStore == StoreInit(StoreLayouts)

\* arguments of the searches of SpecSearch
AllLimits == {0, 1, 2, DefaultLimit}
AllThresholds == {NoThreshold, <<0, 1>>, <<1, 2>>, <<99, 100>>}
AllFilters == {NoDocumentIds, DocumentIdList({}), DocumentIdList({1}), DocumentIdList({2})}

\* no other call is under way
OthersIdle ==
    /\ chunking = IdleChunking
    /\ embed_call = IdleEmbedCall
    /\ upload = IdleUpload
    /\ request = NoRequest
    /\ removal = IdleRemoval

InitSearch == InitStore /\ search = IdleSearch /\ qa = IdleQA /\ OthersIdle

\* queries of the searches of SpecSearch
AllQueries == Queries \cup {"gato"}

NextSearch ==
    \/ \E query \in AllQueries, limit \in AllLimits, threshold \in AllThresholds,
          document_ids \in AllFilters :
          SearchStart(query, limit, threshold, document_ids)
    \/ SearchFinish

SpecSearch == InitSearch /\ [][NextSearch]_vars

---------------------------------------------------------------------------
(* VertexRAGService.answer_question: one call over any store.              *)

\* the answer of the except branch (in ASCII)
ErrorAnswer == "Lo siento, ocurrio un error al procesar tu pregunta. Por favor intenta nuevamente."
\* the answer when the generation response yields no text
FallbackAnswer == "No se pudo generar una respuesta."

\* str(e) of what search_documents raises when its embedding call failed
SearchFailure == "Search failed: RetryError"
\* str(e) of what generate_content raises
GenerationFailures == {"503 UNAVAILABLE"}

\* what generate_content returns: `text` is "" when the attribute is None or
\* empty, `candidate_text` is the text of the first part of the first
\* candidate, "" when there is none
GenerationResponses ==
    {[has_text |-> TRUE,  text |-> "The answer.", has_candidates |-> FALSE, candidate_text |-> ""],
     [has_text |-> TRUE,  text |-> "The answer.", has_candidates |-> TRUE,  candidate_text |-> "Part one."],
     [has_text |-> TRUE,  text |-> "",            has_candidates |-> FALSE, candidate_text |-> ""],
     [has_text |-> TRUE,  text |-> "",            has_candidates |-> TRUE,  candidate_text |-> "Part one."],
     [has_text |-> FALSE, text |-> "",            has_candidates |-> TRUE,  candidate_text |-> "Part one."],
     [has_text |-> FALSE, text |-> "",            has_candidates |-> FALSE, candidate_text |-> ""]}

\* "Handle response text extraction", with the fallback phrase
AnswerText(response) ==
    LET answer_text == IF response.has_text THEN response.text
                       ELSE IF response.has_candidates THEN response.candidate_text
                       ELSE ""
    IN  IF answer_text = "" THEN FallbackAnswer ELSE answer_text

\* `result.chunk.metadata.get("line_number")`
LineNumber(metadata) ==
    IF "line_number" \in DOMAIN metadata THEN metadata["line_number"] ELSE None

\* CitationSource(...) of one search result
CitationSource(result) ==
    [document_id |-> result.document,
     document_title |-> document_obj[result.document].title,
     chunk_id |-> result.chunk.id, content |-> result.chunk.content,
     page_number |-> result.chunk.page_number,
     line_number |-> LineNumber(result.chunk.metadata),
     relevance_score |-> result.relevance_score]

\* citation_sources built from the last result to the first
CitationSourcesReversed(results) ==
    [i \in 1 .. Len(results) |-> CitationSource(results[Len(results) + 1 - i])]

\* the loop `for result in search_results: citation_sources.append(...)`
CitationSources(results) == [i \in 1 .. Len(results) |-> CitationSource(results[i])]

\* Confidence without the cap: `len(citation_sources) / 3 * 0.9`
ConfidenceUncapped(n) == <<9 * n, 30>>

\* `min(len(citation_sources) / 3, 1.0) * 0.9`, as a fraction
Confidence(n) == IF n >= 3 THEN <<9, 10>> ELSE <<9 * n, 30>>

\* `session_id or "default"`
SessionId(session_id) == IF session_id = None THEN "default" ELSE session_id

\* the QAResponse of the try branch
SuccessResponse(answer_text, citation_sources, session_id) ==
    [success |-> TRUE, answer |-> answer_text, sources |-> citation_sources,
     confidence |-> Confidence(Len(citation_sources)),
     session_id |-> SessionId(session_id), error |-> None]

\* FailureResponse without `error=str(e)`
FailureResponseWithoutError(e, session_id) ==
    [success |-> FALSE, answer |-> ErrorAnswer, sources |-> <<>>,
     confidence |-> <<0, 1>>, session_id |-> SessionId(session_id), error |-> None]

\* the QAResponse of `except Exception as e`
FailureResponse(e, session_id) ==
    [success |-> FALSE, answer |-> ErrorAnswer, sources |-> <<>>,
     confidence |-> <<0, 1>>, session_id |-> SessionId(session_id), error |-> e]

NoResponse ==
    [success |-> FALSE, answer |-> "", sources |-> <<>>, confidence |-> <<0, 1>>,
     session_id |-> "", error |-> None]

\* answer_question up to the embedding call of its search_documents call;
\* question, max_sources and document_ids are fields of its QARequest
AnswerStart(question, max_sources, document_ids, session_id) ==
    /\ qa.pc = "idle"
    /\ qa' = [pc |-> "searching", question |-> question, max_sources |-> max_sources,
              session_id |-> session_id, document_ids |-> document_ids,
              sources |-> <<>>, generated |-> NoText, caught |-> None,
              response |-> NoResponse]
    /\ UNCHANGED <<documents, rag_documents, chunks_by_document, document_obj,
                   files, clock, ingest, search, deleted,
                   chunking, embed_call, upload, request, removal>>

\* the embedding call returns: the search (limit = max_sources, configured
\* threshold, no filter), the citations and the prompt follow, up to the
\* generation call; or it raises, search_documents raises SearchError and the
\* except branch returns
AnswerSearch ==
    /\ qa.pc = "searching"
    /\ \E outcome \in EmbeddingOutcomes(qa.question) :
          IF outcome.ok
          THEN qa' = [qa EXCEPT !.pc = "generating",
                        !.sources = CitationSources(
                            SearchDocuments(outcome.vec, qa.max_sources,
                                            NoThreshold, NoDocumentIds))]
          ELSE qa' = [qa EXCEPT !.pc = "returned", !.caught = SearchFailure,
                        !.response = FailureResponse(SearchFailure, qa.session_id)]
    /\ UNCHANGED <<documents, rag_documents, chunks_by_document, document_obj,
                   files, clock, ingest, search, deleted,
                   chunking, embed_call, upload, request, removal>>

\* the generation call returns and the answer is packaged, or it raises and
\* the except branch returns
AnswerGenerate ==
    /\ qa.pc = "generating"
    /\ \/ \E response \in GenerationResponses :
             qa' = [qa EXCEPT !.pc = "returned", !.generated = response,
                      !.response = SuccessResponse(AnswerText(response), qa.sources,
                                                   qa.session_id)]
       \/ \E e \in GenerationFailures :
             qa' = [qa EXCEPT !.pc = "returned", !.caught = e,
                      !.response = FailureResponse(e, qa.session_id)]
    /\ UNCHANGED <<documents, rag_documents, chunks_by_document, document_obj,
                   files, clock, ingest, search, deleted,
                   chunking, embed_call, upload, request, removal>>

\* arguments of the calls of SpecQA
MaxSourcesValues == {1, 3, 4}
\* QARequest.document_ids: none, or the one id listed
RequestFilters == {NoDocumentIds, DocumentIdList({1})}
SessionIds == {None, "s1"}

\* chunks in the store of SpecQA
MaxQAChunks == 4

\* contents of the chunks in the store of SpecQA
QAContents == {"The cat sat.", "It was calm.", "Nothing here"}

InitQA ==
    /\ StoreInit(Layouts(QAContents, MaxQAChunks))
    /\ search = IdleSearch /\ qa = IdleQA /\ OthersIdle

NextQA ==
    \/ \E question \in Queries, max_sources \in MaxSourcesValues,
          document_ids \in RequestFilters, session_id \in SessionIds :
          AnswerStart(question, max_sources, document_ids, session_id)
    \/ AnswerSearch
    \/ AnswerGenerate

SpecQA == InitQA /\ [][NextQA]_vars

---------------------------------------------------------------------------
(* chunk_document as a function of its text.                               *)

\* pieces in a text
MaxTextLen == 5

Pieces == {"a", ".", " ", "\n", "x1999"} \cup PageMarkers

\* "The cat sat. It was calm."
CatText ==
    <<"The", " ", "cat", " ", "sat", ".", " ", "It", " ", "was", " ", "calm", ".">>

\* two sentences of 2000 characters on page 1, then the marker of page 2
PagedText == <<"x1999", ".", "x1999", ".", "\n", "--- Page 2">>

Texts == SeqsUpTo(Pieces, MaxTextLen) \cup {CatText, PagedText}

Filenames == {"cv.txt"}

\* values of Settings.chunk_size: the default, and CHUNK_SIZE=2000
ChunkSizes == {DefaultChunkSize, 2000}

\* the services with nothing stored and no call under way
EmptyServices ==
    /\ documents = {}
    /\ rag_documents = {}
    /\ chunks_by_document = <<>>
    /\ document_obj = [t \in Tasks |-> NoDocument]
    /\ files = {}
    /\ clock = 0
    /\ ingest = [t \in Tasks |-> IdleIngest]
    /\ search = IdleSearch
    /\ deleted = {}
    /\ qa = IdleQA

InitChunk ==
    /\ EmptyServices
    /\ \E text \in Texts, filename \in Filenames, chunk_size \in ChunkSizes :
          chunking = [pc |-> "called", text |-> text, filename |-> filename,
                      chunk_size |-> chunk_size, chunks |-> <<>>]
    /\ embed_call = IdleEmbedCall
    /\ upload = IdleUpload
    /\ request = NoRequest
    /\ removal = IdleRemoval

NextChunk == ChunkDocumentCall

SpecChunk == InitChunk /\ [][NextChunk]_vars

---------------------------------------------------------------------------
(* POST /api/documents/ingest: ingest_documents, one request.  Nothing     *)
(* else runs, so each file's read and process_document call is one step.   *)

\* files in one request of the model
MaxFiles == 3

\* `if len(files) > 10`
MaxBatchFiles == 10

\* what a file of the request is: "good" is processed; for "invalid"
\* validate_file reports errors; "no_text" has no text or no chunk of 10
\* characters; reading "unreadable" from the request raises
FileKinds == {"good", "invalid", "no_text", "unreadable"}

\* how the try block of the loop ends for a file
ProcessOutcome(kind) ==
    CASE kind = "good" -> "document"
      [] kind = "invalid" -> "FileValidationError"
      [] kind = "no_text" -> "DocumentProcessingError"
      [] OTHER -> "Exception"

\* f"{file.filename}: {str(e)}", or "...: Unexpected error - ..." from the
\* last except clause
UploadError(i, outcome) == [file |-> i, unexpected |-> (outcome = "Exception")]

\* UploadResponse(...)
UploadResponse(successful_docs, errors) ==
    [success |-> Len(successful_docs) > 0, documents |-> successful_docs,
     errors |-> errors, total_uploaded |-> Len(successful_docs),
     total_failed |-> Len(errors)]

\* the request arrives: the two checks on `files`
UploadStart ==
    /\ upload.pc = "called"
    /\ IF upload.files = <<>> \/ Len(upload.files) > MaxBatchFiles
       THEN upload' = [upload EXCEPT !.pc = "rejected"]      \* HTTPException 400
       ELSE upload' = [upload EXCEPT !.pc = "running", !.i = 1]
    /\ UNCHANGED <<documents, rag_documents, chunks_by_document, document_obj, files,
                   clock, ingest, search, deleted, qa, chunking, embed_call, request, removal>>

\* what a process_document call that returns leaves: the document, completed,
\* in both services with its one chunk, and its snapshot
ProcessedDocument(doc_id) ==
    /\ clock' = clock + 1
    /\ rag_documents' = rag_documents \cup {doc_id}
    /\ chunks_by_document' = PutChunks(doc_id,
           <<[DocumentChunk(UploadName, "The cat sat.", 1, 0)
                 EXCEPT !.embedding = Embedding("The cat sat.")]>>)
    /\ document_obj' = [document_obj EXCEPT ![doc_id] =
           [filename |-> UploadName, title |-> Title(UploadName),
            status |-> "completed", chunk_count |-> 1,
            uploaded_at |-> clock + 1, processed_at |-> "now"]]
    /\ documents' = documents \cup {doc_id}
    /\ files' = files \cup {doc_id}

\* the response after the last file, the next file otherwise
UploadAdvance(successful_docs, errors) ==
    IF upload.i = Len(upload.files)
    THEN upload' = [upload EXCEPT !.pc = "responded", !.i = @ + 1,
                       !.successful_docs = successful_docs, !.errors = errors,
                       !.response = UploadResponse(successful_docs, errors)]
    ELSE upload' = [upload EXCEPT !.i = @ + 1,
                       !.successful_docs = successful_docs, !.errors = errors]

\* UploadFile with `break` in the except clauses: the first failure ends the
\* loop
UploadFileStoppingAtFailure ==
    /\ upload.pc = "running"
    /\ LET outcome == ProcessOutcome(upload.files[upload.i])
       IN  IF outcome = "document"
           THEN /\ ProcessedDocument(upload.i)
                /\ UploadAdvance(Append(upload.successful_docs, upload.i), upload.errors)
           ELSE /\ upload' = [upload EXCEPT !.pc = "responded", !.i = @ + 1,
                       !.errors = Append(upload.errors, UploadError(upload.i, outcome)),
                       !.response = UploadResponse(upload.successful_docs,
                            Append(upload.errors, UploadError(upload.i, outcome)))]
                /\ UNCHANGED <<documents, rag_documents, chunks_by_document,
                               document_obj, files, clock>>
    /\ UNCHANGED <<ingest, search, deleted, qa, chunking, embed_call, request, removal>>

\* one pass of `for file in files`: the file is read into a temporary file
\* and processed; a document is appended to successful_docs, an exception of
\* any kind becomes an entry of errors; after the last file the response is
\* built.  The id of the document of file i is i.
UploadFile ==
    /\ upload.pc = "running"
    /\ LET outcome == ProcessOutcome(upload.files[upload.i])
       IN  IF outcome = "document"
           THEN /\ ProcessedDocument(upload.i)
                /\ UploadAdvance(Append(upload.successful_docs, upload.i), upload.errors)
           ELSE /\ UploadAdvance(upload.successful_docs,
                                 Append(upload.errors, UploadError(upload.i, outcome)))
                /\ UNCHANGED <<documents, rag_documents, chunks_by_document,
                               document_obj, files, clock>>
    /\ UNCHANGED <<ingest, search, deleted, qa, chunking, embed_call, request, removal>>

InitBatch ==
    /\ documents = {}
    /\ rag_documents = {}
    /\ chunks_by_document = <<>>
    /\ document_obj = [d \in 1 .. MaxFiles |-> NoDocument]
    /\ files = {}
    /\ clock = 0
    /\ ingest = [t \in Tasks |-> IdleIngest]
    /\ search = IdleSearch
    /\ deleted = {}
    /\ qa = IdleQA
    /\ chunking = IdleChunking
    /\ embed_call = IdleEmbedCall
    /\ request = NoRequest
    /\ removal = IdleRemoval
    /\ \E fs \in SeqsUpTo(FileKinds, MaxFiles) :
          upload = [IdleUpload EXCEPT !.pc = "called", !.files = fs]

NextBatch == UploadStart \/ UploadFile

SpecBatch == InitBatch /\ [][NextBatch]_vars

---------------------------------------------------------------------------
(* VertexRAGService.generate_embedding, one call: the attempts that        *)
(* @retry(stop=stop_after_attempt(3), wait=wait_exponential(...)) makes.   *)

\* stop_after_attempt(3)
MaxAttempts == 3

\* how an attempt's request to the provider ends: a response in one of the
\* shapes the code reads ("embeddings": response.embeddings[0].values;
\* "embedding": response.embedding; "dict": a dict; "list": a list), a
\* response in no such shape, or an exception from the client
ProviderReplies == {"embeddings", "embedding", "dict", "list", "unexpected", "error"}

\* the attempt returns a vector; otherwise the except clause raises
\* SearchError
Decodes(reply) == reply \in {"embeddings", "embedding", "dict", "list"}

\* the stop condition checked one attempt late: `attempt_number > 3`
StopsAfterOneMore(attempts) == Len(attempts) > MaxAttempts

\* stop_after_attempt(3): no attempt follows the third
StopsAfter(attempts) == Len(attempts) >= MaxAttempts

\* generate_embedding is called
EmbedStart(text) ==
    /\ embed_call.pc = "idle"
    /\ embed_call' = [IdleEmbedCall EXCEPT !.pc = "attempting", !.text = text]
    /\ UNCHANGED <<documents, rag_documents, chunks_by_document, document_obj, files,
                   clock, ingest, search, deleted, qa, chunking, upload, request, removal>>

\* the request of an attempt ends: the vector is returned; or the attempt
\* raised and tenacity sleeps before the next attempt, or raises RetryError
\* when the attempts are used up
EmbedAttempt ==
    /\ embed_call.pc = "attempting"
    /\ \E reply \in ProviderReplies :
          LET attempts == Append(embed_call.attempts, reply)
          IN  IF Decodes(reply)
              THEN embed_call' = [embed_call EXCEPT !.pc = "returned",
                                     !.attempts = attempts,
                                     !.result = Embedding(embed_call.text)]
              ELSE IF StopsAfter(attempts)
              THEN embed_call' = [embed_call EXCEPT !.pc = "raised",
                                     !.attempts = attempts, !.error = "RetryError"]
              ELSE embed_call' = [embed_call EXCEPT !.pc = "sleeping",
                                     !.attempts = attempts]
    /\ UNCHANGED <<documents, rag_documents, chunks_by_document, document_obj, files,
                   clock, ingest, search, deleted, qa, chunking, upload, request, removal>>

\* the wait of wait_exponential is over: the next attempt starts
EmbedRetry ==
    /\ embed_call.pc = "sleeping"
    /\ embed_call' = [embed_call EXCEPT !.pc = "attempting"]
    /\ UNCHANGED <<documents, rag_documents, chunks_by_document, document_obj, files,
                   clock, ingest, search, deleted, qa, chunking, upload, request, removal>>

\* the texts embedded: chunk contents and queries
EmbeddedTexts == Contents \cup Queries

InitEmbed ==
    /\ EmptyServices
    /\ chunking = IdleChunking
    /\ embed_call = IdleEmbedCall
    /\ upload = IdleUpload
    /\ request = NoRequest
    /\ removal = IdleRemoval

NextEmbed ==
    \/ \E text \in EmbeddedTexts : EmbedStart(text)
    \/ EmbedAttempt
    \/ EmbedRetry

SpecEmbed == InitEmbed /\ [][NextEmbed]_vars

---------------------------------------------------------------------------
(* GET and POST /api/search: one request over any store.                   *)

\* `threshold: float = Query(0.7, ...)` of the GET route
GetThreshold(threshold) == IF threshold = NoThreshold THEN <<7, 10>> ELSE threshold

\* `threshold: float = Field(default=0.7, ...)` of SearchRequest
SearchRequestThreshold(threshold) ==
    IF threshold = NoThreshold THEN <<7, 10>> ELSE threshold

\* thresholds a request carries: none, or 0.5
RequestThresholds == {NoThreshold, <<1, 2>>}

\* limits a request carries (1..20; 5 when it carries none)
RequestLimits == {1, DefaultLimit}

\* GET /api/search?q=...: the handler up to the embedding call of its
\* search_documents call; `threshold` is what the request carries
GetSearch(q, limit, threshold) ==
    /\ request.pc = "idle"
    /\ search.pc = "idle"
    /\ request' = [NoRequest EXCEPT !.pc = "searching", !.route = "GET",
                                    !.threshold = threshold]
    /\ search' = StartedSearch(q, limit, GetThreshold(threshold), NoDocumentIds)
    /\ UNCHANGED <<documents, rag_documents, chunks_by_document, document_obj, files,
                   clock, ingest, deleted, qa, chunking, embed_call, upload, removal>>

\* POST /api/search with a SearchRequest body, up to the same point
PostSearch(query, limit, threshold) ==
    /\ request.pc = "idle"
    /\ search.pc = "idle"
    /\ request' = [NoRequest EXCEPT !.pc = "searching", !.route = "POST",
                                    !.threshold = threshold]
    /\ search' = StartedSearch(query, limit, SearchRequestThreshold(threshold),
                               NoDocumentIds)
    /\ UNCHANGED <<documents, rag_documents, chunks_by_document, document_obj, files,
                   clock, ingest, deleted, qa, chunking, embed_call, upload, removal>>

\* search_documents returns and the handler answers with the results, or it
\* raises and the handler answers 500
RouteFinish ==
    /\ request.pc = "searching"
    /\ search.pc = "embedding"
    /\ \E outcome \in EmbeddingOutcomes(search.query) :
          /\ search' = FinishedSearch(outcome)
          /\ request' = IF outcome.ok
                        THEN [request EXCEPT !.pc = "responded",
                                             !.results = FinishedSearch(outcome).result]
                        ELSE [request EXCEPT !.pc = "failed"]
    /\ UNCHANGED <<documents, rag_documents, chunks_by_document, document_obj, files,
                   clock, ingest, deleted, qa, chunking, embed_call, upload, removal>>

InitRoutes ==
    /\ InitStore
    /\ search = IdleSearch /\ qa = IdleQA
    /\ chunking = IdleChunking
    /\ embed_call = IdleEmbedCall
    /\ upload = IdleUpload
    /\ request = NoRequest
    /\ removal = IdleRemoval

NextRoutes ==
    \/ \E q \in Queries, limit \in RequestLimits, threshold \in RequestThresholds :
          GetSearch(q, limit, threshold)
    \/ \E query \in Queries, limit \in RequestLimits, threshold \in RequestThresholds :
          PostSearch(query, limit, threshold)
    \/ RouteFinish

SpecRoutes == InitRoutes /\ [][NextRoutes]_vars

---------------------------------------------------------------------------
(* DocumentService.delete_document as a call with its return value, made   *)
(* with any id over any store.  It awaits nothing: a call is one step.     *)

\* the ids the calls are made with: those of the stored documents and one
\* that no document ever had
DeleteIds == StoreDocIds \cup {3}

\* Removal with `del self.documents[document_id]` not guarded by the
\* membership test: for a missing key it raises KeyError, and the except
\* clause returns False
RemovalWithoutMembershipTest(document_id, removed) ==
    IF document_id \notin documents
    THEN [documents |-> documents, files |-> files, returned |-> FALSE]
    ELSE [documents |-> documents \ {document_id},
          files |-> IF removed THEN files \ {document_id} ELSE files,
          returned |-> (document_id \in files => removed)]

\* the body of delete_document: the map and the snapshot files it leaves and
\* the value it returns; `removed` tells whether os.remove, if it is
\* called, succeeds (otherwise it raises and the except clause returns False)
Removal(document_id, removed) ==
    [documents |-> documents \ {document_id},
     files |-> IF removed THEN files \ {document_id} ELSE files,
     returned |-> (document_id \in files => removed)]

\* one delete_document(document_id) call, from entry to return
DeleteCall(document_id) ==
    /\ \E removed \in BOOLEAN :
          LET r == Removal(document_id, removed)
          IN  /\ documents' = r.documents
              /\ files' = r.files
              /\ deleted' = IF r.returned THEN deleted \cup {document_id} ELSE deleted
              /\ removal' = [pc |-> "returned", document_id |-> document_id,
                             present |-> document_id \in documents,
                             snapshot |-> document_id \in files,
                             documents_before |-> documents,
                             returned |-> r.returned]
    /\ UNCHANGED <<rag_documents, chunks_by_document, document_obj, clock, ingest,
                   search, qa, chunking, embed_call, upload, request>>

InitDelete ==
    /\ InitStore
    /\ search = IdleSearch /\ qa = IdleQA /\ OthersIdle

NextDelete == \E document_id \in DeleteIds : DeleteCall(document_id)

SpecDelete == InitDelete /\ [][NextDelete]_vars

---------------------------------------------------------------------------
(* What a reader of the stores can observe. *)

\* the keys of chunks_by_document
StoredIds == {chunks_by_document[e].doc_id : e \in 1 .. Len(chunks_by_document)}

\* chunks_by_document.get(doc_id), <<>> standing for "no such key"
StoredChunks(doc_id) ==
    IF doc_id \in StoredIds
    THEN (CHOOSE entry \in {chunks_by_document[e] : e \in 1 .. Len(chunks_by_document)} :
              entry.doc_id = doc_id).chunks
    ELSE <<>>

\* the documents of a result list
ResultDocuments(results) == {results[i].document : i \in 1 .. Len(results)}

\* the documents some search started now would return a chunk of: any query,
\* every similarity admitted (cosine >= -1), no truncation, no filter
SearchableDocuments ==
    UNION {ResultDocuments(SearchDocuments(Embedding(q), MaxDocs * MaxChunks,
                                           <<-1, 1>>, NoDocumentIds)) :
           q \in Queries}

\* the documents list_documents returns for some skip and limit
ListedDocuments ==
    UNION {{ListDocuments(skip, limit)[i] :
                i \in 1 .. Len(ListDocuments(skip, limit))} :
           skip \in 0 .. MaxDocs, limit \in 1 .. MaxDocs + 1}

\* this step is a search_documents call returning its results
SearchReturns == search.pc = "embedding" /\ search'.pc = "done"

\* this step is delete_document(d) returning True
DeleteReturnsTrue(d) == d \notin deleted /\ d \in deleted'

---------------------------------------------------------------------------
(* GET /api/documents/{document_id}/chunks: the route get_document_chunks, *)
(* one request over any store.                                             *)

\* the methods DocumentService defines (document_service.py, the whole
\* class)
DocumentServiceMethods ==
    {"validate_file", "extract_text_from_pdf", "extract_text_from_txt",
     "chunk_document", "process_document", "get_document", "list_documents",
     "delete_document", "get_document_count"}

\* the handler: 404 when get_document finds nothing; otherwise the lookup of
\* `document_service.get_document_chunks`.  For a method the class does not
\* define the lookup raises AttributeError, `except Exception` catches it
\* and the handler answers 500; were it defined, the handler would answer
\* with the chunks it returns.
GetDocumentChunks(document_id) ==
    /\ request.pc = "idle"
    /\ request' =
          IF GetDocument(document_id) = NoDocument
          THEN [NoRequest EXCEPT !.pc = "responded", !.route = "chunks",
                                 !.document_id = document_id, !.status = 404]
          ELSE IF "get_document_chunks" \notin DocumentServiceMethods
          THEN [NoRequest EXCEPT !.pc = "responded", !.route = "chunks",
                                 !.document_id = document_id, !.status = 500]
          ELSE [NoRequest EXCEPT !.pc = "responded", !.route = "chunks",
                                 !.document_id = document_id, !.status = 200,
                                 !.body = [success |-> TRUE,
                                           chunks |-> StoredChunks(document_id),
                                           total_chunks |-> Len(StoredChunks(document_id))]]
    /\ UNCHANGED <<documents, rag_documents, chunks_by_document, document_obj, files,
                   clock, ingest, search, deleted, qa, chunking, embed_call, upload,
                   removal>>

InitChunksRoute ==
    /\ InitStore
    /\ search = IdleSearch /\ qa = IdleQA /\ OthersIdle

NextChunksRoute == \E document_id \in DeleteIds : GetDocumentChunks(document_id)

SpecChunksRoute == InitChunksRoute /\ [][NextChunksRoute]_vars

---------------------------------------------------------------------------
(* Claims. *)

\* C1: once delete_document(id) has returned true, no search_documents call
\* that returns afterwards contains a result whose document is id.
C1_NoDeletedDocumentInSearch ==
    [][SearchReturns => ResultDocuments(search'.result) \cap deleted' = {}]_vars

\* C2: while a document is being ingested no search returns a chunk of it:
\* its chunk list appears in one step, when the enrichment of all its chunks
\* has finished, every chunk in it carries its embedding, and the list does
\* not change afterwards.
C2_VisibleOnlyWhenEnriched ==
    /\ [](\A t \in Tasks :
            ingest[t].pc \in {"idle", "extracting", "embedding", "raised"} =>
                /\ t \notin SearchableDocuments
                /\ t \notin ResultDocuments(search.result))
    /\ [][\A t \in Tasks :
            StoredChunks(t)' # StoredChunks(t) =>
                /\ t \notin StoredIds
                /\ ingest[t].pc = "embedding" /\ ingest[t].k = Len(ingest[t].chunks)
                /\ ingest'[t].pc = "saving"
                /\ \A i \in 1 .. Len(StoredChunks(t)') :
                      Len(StoredChunks(t)'[i].embedding) > 0]_vars

\* a search has returned nothing while the document is half embedded
C2_Witness ==
    \E t \in Tasks :
        /\ ingest[t].pc = "embedding" /\ ingest[t].k = 2
        /\ Len(ingest[t].enriched) = 1
        /\ search.pc = "done" /\ search.result = <<>>

\* C4: after delete_document(id) has returned true the Document record and
\* the chunk list of id are gone from every in-memory store, and no state
\* holds a chunk list whose Document record readers no longer get.
C4_DeleteRemovesRecordAndChunks ==
    /\ \A d \in deleted :
          d \notin documents /\ d \notin rag_documents /\ d \notin StoredIds
    /\ \A d \in StoredIds : d \in documents

\* C5: after delete_document(id) has returned true, get_document(id) returns
\* None and no list_documents result holds id, in every later state; and the
\* delete of a present id takes get_document_count down by one.
C5_DeletedNotListed ==
    /\ [](\A d \in deleted :
            GetDocument(d) = NoDocument /\ d \notin ListedDocuments)
    /\ [][\A d \in Tasks :
            (DeleteReturnsTrue(d) /\ d \in documents) =>
                GetDocumentCount' = GetDocumentCount - 1]_vars

\* a stored, listed document has been deleted and its snapshot removed
C5_Witness ==
    \E d \in deleted :
        ingest[d].pc = "done" /\ d \notin files /\ GetDocumentCount = 0

\* C9: a process_document call that fails raises FileValidationError or
\* DocumentProcessingError and leaves the stores as they were: its document
\* is in no store and no get, list or search returns it.  It fails whenever
\* no chunk of at least 10 characters survives, so no document is embedded or
\* stored without such a chunk.
C9_FailedIngestLeavesStores ==
    /\ [](\A t \in Tasks :
            /\ ingest[t].pc = "raised" =>
                  /\ ingest[t].raised \in {"FileValidationError", "DocumentProcessingError"}
                  /\ t \notin documents /\ t \notin rag_documents /\ t \notin StoredIds
                  /\ GetDocument(t) = NoDocument /\ t \notin ListedDocuments
                  /\ t \notin SearchableDocuments
            /\ ingest[t].pc = "embedding" =>
                  /\ ingest[t].chunks # <<>>
                  /\ \A i \in 1 .. Len(ingest[t].chunks) :
                        Len(ingest[t].chunks[i].content) >= MinChunkChars
            /\ t \in documents => document_obj[t].chunk_count >= 1)
    /\ [][\A t \in Tasks :
            (ingest[t].pc # "raised" /\ ingest'[t].pc = "raised") =>
                /\ documents' = documents /\ rag_documents' = rag_documents
                /\ chunks_by_document' = chunks_by_document /\ files' = files]_vars

\* a call has failed on its chunks: the Document was created, nothing stored
C9_Witness ==
    \E t \in Tasks :
        /\ ingest[t].pc = "raised" /\ ingest[t].raised = "DocumentProcessingError"
        /\ document_obj[t].status = "processing"
        /\ documents = {} /\ rag_documents = {} /\ chunks_by_document = <<>>

\* C10: every chunk in the stored chunk lists has a non-empty embedding, and
\* so has every chunk a search returns; a chunk whose embedding call failed
\* is left out while the chunks enriched before it stay, in order, in the
\* list that is stored.
C10_StoredChunksHaveEmbedding ==
    /\ [](/\ \A d \in StoredIds : \A i \in 1 .. Len(StoredChunks(d)) :
                Len(StoredChunks(d)[i].embedding) > 0
          /\ \A i \in 1 .. Len(search.result) :
                Len(search.result[i].chunk.embedding) > 0
          /\ \A t \in Tasks : \A i \in 1 .. Len(ingest[t].enriched) :
                Len(ingest[t].enriched[i].embedding) > 0)
    /\ [][\A t \in Tasks :
            ingest[t].pc = "embedding" =>
                LET kept == IF ingest'[t].pc = "saving" THEN StoredChunks(t)'
                            ELSE ingest'[t].enriched
                IN  /\ Len(kept) >= Len(ingest[t].enriched)
                    /\ SubSeq(kept, 1, Len(ingest[t].enriched)) = ingest[t].enriched]_vars

\* a document of two chunks is stored with the one chunk that got its
\* embedding, and a search has returned that chunk
C10_Witness ==
    \E d \in StoredIds :
        /\ document_obj[d].chunk_count = 2
        /\ Len(StoredChunks(d)) = 1
        /\ search.pc = "done" /\ Len(search.result) = 1

\* the threshold in force for the search call: its argument, or the configured
\* default when none was given
ThresholdInForce == IF search.threshold = NoThreshold THEN <<4, 10>> ELSE search.threshold

\* similarities as real numbers
SimEqual(s1, s2) == ~SimLess(s1, s2) /\ ~SimLess(s2, s1)

\* the place of a stored chunk in insertion order: its document's place in
\* chunks_by_document, then its place in the document's list
StorePlaces ==
    {<<e, i>> : e \in 1 .. Len(chunks_by_document), i \in 1 .. MaxStoreChunks}
        \cap {p \in (1 .. MaxStoreChunks) \X (1 .. MaxStoreChunks) :
                 p[1] <= Len(chunks_by_document)
                 /\ p[2] <= Len(chunks_by_document[p[1]].chunks)}

PlaceChunk(p) == chunks_by_document[p[1]].chunks[p[2]]
PlaceDocument(p) == chunks_by_document[p[1]].doc_id
PlaceBefore(p, q) == p[1] < q[1] \/ (p[1] = q[1] /\ p[2] < q[2])
PlaceSimilarity(p) == CosineSimilarity(Embedding(search.query), PlaceChunk(p).embedding)

\* the stored chunks with an embedding and similarity >= the threshold
QualifyingPlaces ==
    {p \in StorePlaces :
        /\ Len(PlaceChunk(p).embedding) > 0
        /\ SimAtLeast(PlaceSimilarity(p), ThresholdInForce)}

\* the place of the stored chunk a result carries
ResultPlace(r) ==
    CHOOSE p \in StorePlaces : PlaceDocument(p) = r.document /\ PlaceChunk(p) = r.chunk

\* C6: for every store, query, threshold, filter and limit >= 0,
\* search_documents returns at most limit results.
C6_AtMostLimitResults ==
    (search.pc = "done" /\ search.limit >= 0) => Len(search.result) <= search.limit

\* a search with limit 1 returned one result of a store holding two chunks
\* above the threshold
C6_Witness ==
    /\ search.pc = "done" /\ search.limit = 1 /\ Len(search.result) = 1
    /\ search.document_ids = NoDocumentIds
    /\ Cardinality(QualifyingPlaces) >= 2

\* C7: every result search_documents returns carries the cosine similarity of
\* its chunk to the query, and that similarity is >= the threshold in force.
C7_ResultsReachThreshold ==
    search.pc = "done" =>
        \A i \in 1 .. Len(search.result) :
            /\ search.result[i].similarity =
                  CosineSimilarity(Embedding(search.query), search.result[i].chunk.embedding)
            /\ SimAtLeast(search.result[i].similarity, ThresholdInForce)

\* the store's only chunk has similarity 0.5 to the query, the threshold is
\* 0.99 and the search returned the empty list
C7_Witness ==
    /\ search.pc = "done" /\ search.threshold = <<99, 100>> /\ search.result = <<>>
    /\ search.document_ids = NoDocumentIds
    /\ Cardinality(StorePlaces) = 1
    /\ \A p \in StorePlaces : PlaceSimilarity(p) = [num |-> 1, den2 |-> 4]

\* C8: without a document filter the result is the first `limit` elements of
\* the stored chunks with an embedding and similarity >= threshold, ordered by
\* non-increasing similarity, equal similarities in insertion order: every
\* result is such a chunk, the order is that one, the length is the smaller of
\* limit and their number, and a chunk left out ranks behind every result.
C8_TopOfStableRanking ==
    (search.pc = "done" /\ search.document_ids = NoDocumentIds) =>
        LET res == search.result
            place(i) == ResultPlace(res[i])
            taken == {place(i) : i \in 1 .. Len(res)}
        IN  /\ \A i \in 1 .. Len(res) :
                  /\ \E p \in QualifyingPlaces :
                        PlaceDocument(p) = res[i].document /\ PlaceChunk(p) = res[i].chunk
                  /\ res[i].similarity = PlaceSimilarity(place(i))
            /\ \A i \in 1 .. Len(res) : \A j \in 1 .. Len(res) :
                  i < j =>
                      \/ SimLess(res[j].similarity, res[i].similarity)
                      \/ /\ SimEqual(res[i].similarity, res[j].similarity)
                         /\ PlaceBefore(place(i), place(j))
            /\ Len(res) = IF search.limit < Cardinality(QualifyingPlaces)
                          THEN search.limit ELSE Cardinality(QualifyingPlaces)
            /\ \A p \in QualifyingPlaces \ taken : \A q \in taken :
                  \/ SimLess(PlaceSimilarity(p), PlaceSimilarity(q))
                  \/ /\ SimEqual(PlaceSimilarity(p), PlaceSimilarity(q))
                     /\ PlaceBefore(q, p)

\* three chunks qualify, the first two stored tie below the third, and the
\* search with limit 2 returned the third and then the first
C8_Witness ==
    /\ search.pc = "done" /\ search.limit = 2 /\ Len(search.result) = 2
    /\ search.document_ids = NoDocumentIds
    /\ Cardinality(QualifyingPlaces) = 3
    /\ ResultPlace(search.result[1]) = <<2, 1>>
    /\ ResultPlace(search.result[2]) = <<1, 1>>
    /\ SimEqual(PlaceSimilarity(<<1, 1>>), PlaceSimilarity(<<1, 2>>))
    /\ SimLess(PlaceSimilarity(<<1, 1>>), PlaceSimilarity(<<2, 1>>))

---------------------------------------------------------------------------
(* chunk_document. *)

\* C11: the chunks one chunk_document call returns carry the chunk_index
\* values 0, 1, ..., n-1 in the order of the list, and the id of each ends
\* with the chunk's own index.
C11_IndicesCountFromZero ==
    chunking.pc = "returned" =>
        \A i \in 1 .. Len(chunking.chunks) :
            /\ chunking.chunks[i].chunk_index = i - 1
            /\ chunking.chunks[i].id = ChunkId(chunking.filename, i - 1)

\* a call has returned two chunks
C11_Witness ==
    /\ chunking.pc = "returned"
    /\ Len(chunking.chunks) = 2
    /\ chunking.chunks[2].chunk_index = 1

\* sentences i..m joined by single spaces
RECURSIVE JoinSentences(_, _, _)
JoinSentences(sentences, i, m) ==
    IF i = m THEN sentences[i]
    ELSE sentences[i] \o <<" ">> \o JoinSentences(sentences, i + 1, m)

\* chunks j, j+1, ... are sentences i, i+1, ... cut into consecutive runs,
\* each run joined by single spaces, with no sentence left over
RECURSIVE CoversSentences(_, _, _, _)
CoversSentences(sentences, i, chunks, j) ==
    IF j > Len(chunks) THEN i > Len(sentences)
    ELSE \E m \in i .. Len(sentences) :
            /\ chunks[j].content = JoinSentences(sentences, i, m)
            /\ CoversSentences(sentences, m + 1, chunks, j + 1)

\* C12: the chunks are the sentences of the text, in order, each chunk a run
\* of whole sentences joined by single spaces, none lost, split or repeated;
\* a chunk is longer than 4000 characters only when it is one sentence that
\* is itself longer than 4000.
C12_ChunksAreWholeSentences ==
    chunking.pc = "returned" =>
        /\ CoversSentences(Sentences(chunking.text), 1, chunking.chunks, 1)
        /\ \A i \in 1 .. Len(chunking.chunks) :
              CharCount(chunking.chunks[i].content) > MaxChunkChars =>
                  \E k \in 1 .. Len(Sentences(chunking.text)) :
                      /\ chunking.chunks[i].content = Sentences(chunking.text)[k]
                      /\ CharCount(Sentences(chunking.text)[k]) > MaxChunkChars

\* three sentences went into two chunks, the first chunk two sentences long
C12_Witness ==
    /\ chunking.pc = "returned"
    /\ Len(Sentences(chunking.text)) = 3
    /\ Len(chunking.chunks) = 2
    /\ chunking.chunks[1].content = JoinSentences(Sentences(chunking.text), 1, 2)

\* C13: for a text without a page-marker line every chunk has page_number 1,
\* and "The cat sat. It was calm." gives exactly one chunk, with page 1,
\* index 0 and the text as its content.
C13_PageOneWithoutMarkers ==
    chunking.pc = "returned" =>
        LET lines == SplitLines(chunking.text, 1, <<>>)
        IN  /\ (\A l \in 1 .. Len(lines) :
                     lines[l] = <<>> \/ lines[l][1] \notin PageMarkers)
                  => \A i \in 1 .. Len(chunking.chunks) :
                         chunking.chunks[i].page_number = 1
            /\ chunking.text = CatText =>
                  /\ Len(chunking.chunks) = 1
                  /\ chunking.chunks[1].page_number = 1
                  /\ chunking.chunks[1].chunk_index = 0
                  /\ chunking.chunks[1].content = CatText

\* the call on "The cat sat. It was calm." has returned
C13_Witness ==
    /\ chunking.pc = "returned"
    /\ chunking.text = CatText
    /\ Len(chunking.chunks) = 1

---------------------------------------------------------------------------
(* answer_question: confidence and citations. *)

\* the fraction <<n, d>> equals a / b
FractionIs(f, a, b) == f[1] * b = a * f[2]

\* C14: a successful answer_question has confidence min(n / 3, 1) * 0.9 for
\* its n citation sources: 0, 0.3, 0.6 for n = 0, 1, 2 and 0.9 from n = 3 on;
\* the confidence of every response, success or failure, is in [0, 1].
C14_ConfidenceFromSources ==
    qa.pc = "returned" =>
        LET n == Len(qa.response.sources)
            confidence == qa.response.confidence
        IN  /\ qa.response.success =>
                  /\ n = 0 => FractionIs(confidence, 0, 10)
                  /\ n = 1 => FractionIs(confidence, 3, 10)
                  /\ n = 2 => FractionIs(confidence, 6, 10)
                  /\ n >= 3 => FractionIs(confidence, 9, 10)
            /\ confidence[2] > 0
            /\ 0 <= confidence[1] /\ confidence[1] <= confidence[2]

\* a successful answer cites four sources
C14_Witness ==
    /\ qa.pc = "returned"
    /\ qa.response.success
    /\ Len(qa.response.sources) = 4

\* the results of the search answer_question made (the store does not change
\* during the call)
AnswerResults ==
    SearchDocuments(Embedding(qa.question), qa.max_sources, NoThreshold, NoDocumentIds)

\* C15: the sources of a successful answer_question are the results of its
\* search, one CitationSource per result in rank order, each with the
\* result's document id and title, chunk id, content, page number and
\* relevance score; there are at most max_sources of them, their relevance
\* does not increase along the list, and line_number is set only for a chunk
\* whose metadata has a line_number.
C15_SourcesFollowResults ==
    (qa.pc = "returned" /\ qa.response.success) =>
        LET sources == qa.response.sources
        IN  /\ Len(sources) = Len(AnswerResults)
            /\ Len(sources) <= qa.max_sources
            /\ \A i \in 1 .. Len(sources) :
                  LET result == AnswerResults[i]
                  IN  /\ sources[i].document_id = result.document
                      /\ sources[i].document_title = Title(StoreFilename(result.document))
                      /\ sources[i].chunk_id = result.chunk.id
                      /\ sources[i].content = result.chunk.content
                      /\ sources[i].page_number = result.chunk.page_number
                      /\ sources[i].relevance_score = result.similarity
                      /\ sources[i].line_number # None =>
                             "line_number" \in DOMAIN result.chunk.metadata
            /\ \A i, j \in 1 .. Len(sources) :
                  i < j => ~SimLess(sources[i].relevance_score,
                                    sources[j].relevance_score)

\* a successful answer cites two chunks of different documents, the more
\* relevant one first although it was stored later
C15_Witness ==
    /\ qa.pc = "returned"
    /\ qa.response.success
    /\ Len(qa.response.sources) = 2
    /\ qa.response.sources[1].document_id = 2
    /\ qa.response.sources[2].document_id = 1
    /\ SimLess(qa.response.sources[2].relevance_score,
               qa.response.sources[1].relevance_score)

---------------------------------------------------------------------------
(* ingest_documents. *)

\* the positions of the files of the request that are processed
RECURSIVE GoodFiles(_, _)
GoodFiles(fs, i) ==
    IF i > Len(fs) THEN <<>>
    ELSE IF fs[i] = "good" THEN <<i>> \o GoodFiles(fs, i + 1)
    ELSE GoodFiles(fs, i + 1)

---------------------------------------------------------------------------
(* The status of a document. *)

\* C17: the status of a document changes only from pending to processing
\* and from processing to completed, or to error in the step in which its
\* ingestion fails; a new document starts at pending or processing; nothing
\* changes a completed or error status; and a process_document call that has
\* raised is never taken up again.
C17_StatusMovesForward ==
    /\ [][\A t \in Tasks :
            LET old == document_obj[t].status
                new == document_obj'[t].status
            IN  old # new =>
                  \/ old = None /\ new \in {"pending", "processing"}
                  \/ old = "pending" /\ new = "processing"
                  \/ old = "processing" /\ new = "completed"
                  \/ /\ new = "error"
                     /\ old \in {"pending", "processing"}
                     /\ ingest[t].pc # "raised" /\ ingest'[t].pc = "raised"]_vars
    /\ [][\A t \in Tasks :
            ingest[t].pc = "raised" =>
                ingest'[t] = ingest[t] /\ document_obj'[t] = document_obj[t]]_vars

\* a document has gone from processing to completed and its call has returned
C17_Witness ==
    \E t \in Tasks :
        /\ ingest[t].pc = "done"
        /\ document_obj[t].status = "completed"
        /\ t \in documents

---------------------------------------------------------------------------
(* generate_embedding. *)

\* C18: a generate_embedding call makes at most 3 attempts; when it returns,
\* it returns the vector of its last attempt, the first that succeeded; it
\* raises only after 3 failed attempts, no attempt follows the third, and it
\* returns no vector once the third attempt has failed.
C18_AtMostThreeAttempts ==
    LET attempts == embed_call.attempts
        n == Len(attempts)
    IN  /\ n <= 3
        /\ \A k \in 1 .. n - 1 : ~Decodes(attempts[k])
        /\ embed_call.pc \in {"attempting", "sleeping"} => n < 3
        /\ embed_call.pc = "returned" =>
              /\ n >= 1 /\ Decodes(attempts[n])
              /\ embed_call.result = Embedding(embed_call.text)
              /\ embed_call.error = None
        /\ embed_call.pc = "raised" =>
              /\ n = 3 /\ ~Decodes(attempts[3])
              /\ embed_call.result = NoEmbedding
              /\ embed_call.error # None
        /\ (n = 3 /\ ~Decodes(attempts[3])) => embed_call.pc = "raised"

\* a call has raised after three failed attempts
C18_Witness ==
    /\ embed_call.pc = "raised"
    /\ Len(embed_call.attempts) = 3

---------------------------------------------------------------------------
(* Vectors of different dimensions. *)

\* the chunks a search scans: those with an embedding, in the documents it
\* does not skip
ScannedChunks ==
    {chunks_by_document[p[1]].chunks[p[2]] :
        p \in {q \in StorePlaces :
                 /\ ~SkipsDocument(chunks_by_document[q[1]].doc_id, search.document_ids)
                 /\ Len(chunks_by_document[q[1]].chunks[q[2]].embedding) > 0}}

\* C19: search_documents returns no result list when the query vector and
\* the vector of a chunk it scans have different lengths: a search that has
\* returned scanned only chunks of the query's dimension.
C19_MismatchFailsFast ==
    search.pc = "done" =>
        \A chunk \in ScannedChunks :
            Len(chunk.embedding) = Len(Embedding(search.query))

---------------------------------------------------------------------------
(* The threshold of a search without one. *)

\* C20: a GET or POST /api/search request that carries no threshold is
\* searched with the configured similarity_threshold, 0.4: the threshold its
\* search_documents call applies is 0.4 and the results it answers with are
\* those of a search at 0.4.
C20_DefaultThresholdIsConfigured ==
    (request.pc = "responded" /\ request.threshold = NoThreshold) =>
        /\ EffectiveThreshold(search.threshold) = <<4, 10>>
        /\ request.results =
              SearchDocuments(Embedding(search.query), search.limit, <<4, 10>>,
                              search.document_ids)

---------------------------------------------------------------------------
(* delete_document on an id that is not in the store. *)

---------------------------------------------------------------------------
(* answer_question: the answer text. *)

\* the answer text a generation response carries: its direct text when that
\* is non-empty, else the text of the first part of its first candidate
CarriedText(response) ==
    IF response.has_text /\ response.text # "" THEN response.text
    ELSE IF response.has_candidates THEN response.candidate_text
    ELSE ""

\* C22: when the generation call returns, answer_question succeeds; if the
\* response carries text in either shape (direct text, or the first part of
\* the first candidate) the answer is that text, and the answer is the
\* fallback phrase only when neither shape yields non-empty text.
C22_AnswerIsResponseText ==
    (qa.pc = "returned" /\ qa.caught = None) =>
        /\ qa.response.success
        /\ CarriedText(qa.generated) # "" =>
              qa.response.answer = CarriedText(qa.generated)
        /\ CarriedText(qa.generated) = "" => qa.response.answer = FallbackAnswer

---------------------------------------------------------------------------
(* search_documents with a document id filter. *)

\* C23: when search_documents is given a list of document ids, the empty
\* list included, the document of every result it returns is in that list.
C23_ResultsWithinFilter ==
    (search.pc = "done" /\ search.document_ids.given) =>
        ResultDocuments(search.result) \subseteq search.document_ids.ids

---------------------------------------------------------------------------
(* chunk_document: the page of a chunk. *)

\* the page each sentence of the text lies on: the page set by the last
\* marker line before it (an unparsable number counting one up), 1 when no
\* marker precedes it
RECURSIVE SentencePages(_, _, _)
SentencePages(lines, i, page) ==
    IF i > Len(lines) THEN <<>>
    ELSE IF IsPageMarker(lines[i])
         THEN SentencePages(lines, i + 1,
                  IF lines[i][1] = "--- Page 2" /\ (Len(lines[i]) = 1 \/ lines[i][2] = " ")
                  THEN 2 ELSE page + 1)
         ELSE [k \in 1 .. Len(LineSentences(lines[i], 1, <<>>)) |-> page]
                  \o SentencePages(lines, i + 1, page)

\* chunks j, j+1, ... are sentences i, i+1, ... cut into runs, and a chunk
\* whose sentences all lie on one page has that page as its page_number
RECURSIVE PagesFollowSentences(_, _, _, _, _)
PagesFollowSentences(sentences, pages, i, chunks, j) ==
    IF j > Len(chunks) THEN i > Len(sentences)
    ELSE \E m \in i .. Len(sentences) :
            /\ chunks[j].content = JoinSentences(sentences, i, m)
            /\ (\A k \in i .. m : pages[k] = pages[i]) =>
                   chunks[j].page_number = pages[i]
            /\ PagesFollowSentences(sentences, pages, m + 1, chunks, j + 1)

\* C24: a chunk's page_number is the page set by the last marker line that
\* precedes the chunk's sentences (1 when none precedes, one more than the
\* page before for a marker whose number cannot be parsed), also when
\* markers follow later in the text; the marker lines themselves are in no
\* chunk's content.
C24_PageOfChunkSentences ==
    chunking.pc = "returned" =>
        LET lines == SplitLines(chunking.text, 1, <<>>)
        IN  PagesFollowSentences(Sentences(chunking.text), SentencePages(lines, 1, 1),
                                 1, chunking.chunks, 1)

---------------------------------------------------------------------------
(* chunk_document: the configured chunk size. *)

\* len(current_chunk) once sentences i..m are in it, each followed by a space
RECURSIVE BufferLen(_, _, _)
BufferLen(sentences, i, m) ==
    IF i > m THEN 0
    ELSE CharCount(sentences[i]) + 1 + BufferLen(sentences, i + 1, m)

\* chunks j, j+1, ... are sentences i, i+1, ... cut into runs by the limit:
\* a sentence joins the buffer when the buffer with it is no longer than the
\* limit, and the buffer is closed when the next sentence would make it longer
RECURSIVE CutAtLimit(_, _, _, _, _)
CutAtLimit(sentences, i, chunks, j, limit) ==
    IF j > Len(chunks) THEN i > Len(sentences)
    ELSE \E m \in i .. Len(sentences) :
            /\ chunks[j].content = JoinSentences(sentences, i, m)
            /\ \A k \in i + 1 .. m :
                  BufferLen(sentences, i, k - 1) + CharCount(sentences[k]) <= limit
            /\ m < Len(sentences) =>
                  BufferLen(sentences, i, m) + CharCount(sentences[m + 1]) > limit
            /\ CutAtLimit(sentences, m + 1, chunks, j + 1, limit)

\* C25: chunk_document cuts at the configured chunk size: whatever value
\* Settings.chunk_size has (4000 by default), the running buffer is closed as
\* a chunk exactly when appending the next sentence would make it longer than
\* that value.
C25_CutsAtConfiguredSize ==
    chunking.pc = "returned" =>
        CutAtLimit(Sentences(chunking.text), 1, chunking.chunks, 1, chunking.chunk_size)

---------------------------------------------------------------------------
(* The ids of the stored chunks. *)

\* C26: any two distinct chunks held in the vector store have distinct ids,
\* also when they belong to different documents ingested from files of the
\* same name, so that a chunk id names exactly one stored chunk.
C26_ChunkIdsAreUnique ==
    \A e1, e2 \in 1 .. Len(chunks_by_document) :
        \A i1 \in 1 .. Len(chunks_by_document[e1].chunks) :
            \A i2 \in 1 .. Len(chunks_by_document[e2].chunks) :
                <<e1, i1>> # <<e2, i2>> =>
                    chunks_by_document[e1].chunks[i1].id
                        # chunks_by_document[e2].chunks[i2].id

---------------------------------------------------------------------------
(* The chunks route. *)

\* what the route lists of a chunk
ChunkListing(chunk) ==
    [id |-> chunk.id, content |-> chunk.content, chunk_index |-> chunk.chunk_index,
     page_number |-> chunk.page_number, has_embedding |-> Len(chunk.embedding) > 0]

\* C27: for a document that get_document finds, GET
\* /api/documents/{id}/chunks answers 200 with success = true, the
\* document's stored chunks (id, content, chunk_index, page_number,
\* has_embedding) and total_chunks equal to their number; it answers 404
\* only when the document does not exist.
C27_ChunksOfFoundDocument ==
    (request.pc = "responded" /\ request.route = "chunks") =>
        IF GetDocument(request.document_id) # NoDocument
        THEN /\ request.status = 200
             /\ request.body.success
             /\ Len(request.body.chunks) = Len(StoredChunks(request.document_id))
             /\ \A i \in 1 .. Len(request.body.chunks) :
                   ChunkListing(request.body.chunks[i])
                       = ChunkListing(StoredChunks(request.document_id)[i])
             /\ request.body.total_chunks = Len(request.body.chunks)
        ELSE request.status = 404

---------------------------------------------------------------------------
(* chunk_count and the stored chunks. *)

\* C28: for every completed document, chunk_count is the number of chunks
\* stored for it in the vector store, each of them with an embedding; so a
\* completed document with chunk_count > 0 has a stored chunk a search can
\* return, also when the embedding of some of its chunks failed.
C28_ChunkCountIsStoredCount ==
    \A t \in documents :
        document_obj[t].status = "completed" =>
            /\ document_obj[t].chunk_count = Len(StoredChunks(t))
            /\ \A i \in 1 .. Len(StoredChunks(t)) :
                  Len(StoredChunks(t)[i].embedding) > 0
            /\ document_obj[t].chunk_count > 0 => Len(StoredChunks(t)) > 0

---------------------------------------------------------------------------
(* answer_question with a document id filter. *)

\* C29: when the QARequest carries a non-empty document_ids list, every
\* source of the answer answer_question returns belongs to a listed
\* document.
C29_SourcesWithinRequestFilter ==
    (qa.pc = "returned" /\ qa.document_ids.given /\ qa.document_ids.ids # {}) =>
        \A i \in 1 .. Len(qa.response.sources) :
            qa.response.sources[i].document_id \in qa.document_ids.ids

---------------------------------------------------------------------------
(* What readers see of a document while it is ingested. *)

\* get_document, list_documents or a search (one that has returned, or one
\* made now) gives document t
Observable(t) ==
    \/ GetDocument(t) # NoDocument
    \/ t \in ListedDocuments
    \/ t \in ResultDocuments(search.result)
    \/ t \in SearchableDocuments

\* C30: under every interleaving of ingest, get, list and search, a document
\* that get_document or list_documents returns or that a search result
\* refers to has status completed and processed_at set; a document still
\* being processed, or one whose ingestion failed, is returned by none of
\* them.
C30_OnlyCompletedObservable ==
    \A t \in Tasks :
        (\/ document_obj[t].status # "completed"
         \/ document_obj[t].processed_at = None
         \/ ingest[t].pc \in {"extracting", "embedding", "raised"})
            => ~Observable(t)

\* a search has returned a chunk of a document, which get_document also
\* returns, while its process_document call is still writing the snapshot
C30_Witness ==
    \E t \in Tasks :
        /\ ingest[t].pc = "saving"
        /\ search.pc = "done" /\ t \in ResultDocuments(search.result)
        /\ GetDocument(t) # NoDocument
        /\ document_obj[t].status = "completed"

====
